---- MODULE Spec2Model ----
(***************************************************************************)
(* Model of go-astquery: the filters (SetFilter, RegexpFilter,             *)
(* MethodFilter, FilterFunc), the name and type extraction helpers         *)
(* (GetName, getStructField, typeName) and Find, which walks the trees     *)
(* under a list of roots with ast.Walk and collects the matching nodes.    *)
(*                                                                         *)
(* Spec       : one call of Find, stepped visit by visit.                  *)
(* FilterSpec : the pure functions applied to inputs from bounded sets.    *)
(***************************************************************************)
EXTENDS Integers, Sequences, FiniteSets, TLC

VARIABLES parent, shape, roots, filter, pc, i, stack, local, found, calls,
          op, arg, flt, res

walkVars == <<parent, shape, roots, filter, pc, i, stack, local, found, calls>>
pureVars == <<op, arg, flt, res>>
vars == <<parent, shape, roots, filter, pc, i, stack, local, found, calls,
          op, arg, flt, res>>

(* ------------------------------ bounds --------------------------------- *)
MaxNodes == 3
MaxRoots == 2
MaxStars == 2

(* --------------------- identifiers as character strings ---------------- *)
Upper == {"S", "O", "F", "M", "I", "G", "C"}
Lower == {"e", "r", "v", "i", "c", "n", "o", "t", "h", "y", "m", "p", "l", "g", "k"}
Digits == {"1"}
Letters == Upper \cup Lower
AllChars == Letters \cup Digits

Service == <<"S", "e", "r", "v", "i", "c", "e">>
ServiceOne == Service \o <<"O", "n", "e">>
ServiceFoo == Service \o <<"F", "o", "o">>
Service1 == Service \o <<"1">>
MyServiceImpl == <<"M", "y">> \o Service \o <<"I", "m", "p", "l">>
Other == <<"O", "t", "h", "e", "r">>
GetUpper == <<"G", "e", "t">>
getLower == <<"g", "e", "t">>
Check == <<"C", "h", "e", "c", "k">>
EmptyString == <<>>

(* ------------------------------ ast nodes ------------------------------ *)
(* A node is a record whose domain is the set of fields of its Go struct;  *)
(* "kind" stands for its dynamic type.  A nil ast.Node has kind "nil".     *)
NilInterface == [tag |-> "nil", isNil |-> TRUE, Name |-> EmptyString]
IdentPtr(n) == [tag |-> "*ast.Ident", isNil |-> FALSE, Name |-> n]
NilIdentPtr == [tag |-> "*ast.Ident", isNil |-> TRUE, Name |-> EmptyString]
StringVal(n) == [tag |-> "string", isNil |-> FALSE, Name |-> n]

NilNode == [kind |-> "nil"]
BlockStmt == [kind |-> "BlockStmt"]
TypeSpec(n) == [kind |-> "TypeSpec", Name |-> IdentPtr(n)]
SelectorExpr(n) == [kind |-> "SelectorExpr", Sel |-> IdentPtr(n)]
ImportSpec(id) == [kind |-> "ImportSpec", Name |-> id]
Ident(n) == [kind |-> "Ident", Name |-> StringVal(n)]
FuncDecl(n, recv) == [kind |-> "FuncDecl", Name |-> IdentPtr(n), Recv |-> recv]

(* type expressions *)
IdentExpr(n) == [tag |-> "Ident", Name |-> n]
StarExpr(x) == [tag |-> "StarExpr", X |-> x]
QualifiedExpr == [tag |-> "SelectorExpr"]
ArrayType == [tag |-> "ArrayType"]

(* receiver lists: a *ast.FieldList (possibly nil) of fields, each with a  *)
(* number of declared names and a type                                     *)
NoRecv == [isNil |-> TRUE, List |-> <<>>]
FieldList(l) == [isNil |-> FALSE, List |-> l]
Field(k, t) == [Names |-> k, Type |-> t]

(* ------------------------------ helpers -------------------------------- *)
TypeOf(node) == node.kind

getStructField(v, field) ==
    IF v.kind = "nil"
    THEN [val |-> NilInterface, exists |-> FALSE]
    ELSE IF field \in DOMAIN v
         THEN [val |-> v[field], exists |-> TRUE]
         ELSE [val |-> NilInterface, exists |-> FALSE]

GetName(n) ==
    LET a == getStructField(n, "Name")
        b == getStructField(n, "Sel")
        ident_ == IF a.exists THEN a.val
                  ELSE IF b.exists THEN b.val ELSE NilInterface
        none == [name |-> EmptyString, exists |-> FALSE, panic |-> FALSE]
    IN  IF ident_ = NilInterface THEN none
        ELSE IF ident_.tag # "*ast.Ident" THEN none
        ELSE IF ident_.isNil
             THEN [name |-> EmptyString, exists |-> FALSE, panic |-> TRUE]
             ELSE [name |-> ident_.Name, exists |-> TRUE, panic |-> FALSE]

typeNameOneLevel(typeExpr) ==
    IF typeExpr.tag = "Ident"
    THEN [name |-> typeExpr.Name, err |-> FALSE]
    ELSE IF typeExpr.tag = "StarExpr" /\ typeExpr.X.tag = "Ident"
         THEN [name |-> typeExpr.X.Name, err |-> FALSE]
         ELSE [name |-> EmptyString, err |-> TRUE]

RECURSIVE typeName(_)
typeName(typeExpr) ==
    IF typeExpr.tag = "StarExpr" THEN typeName(typeExpr.X)
    ELSE IF typeExpr.tag = "Ident"
         THEN [name |-> typeExpr.Name, err |-> FALSE]
         ELSE [name |-> EmptyString, err |-> TRUE]

IsExported(name) == Len(name) > 0 /\ name[1] \in Upper

(* ------------------------------ regexp --------------------------------- *)
(* A pattern is a sequence of items (a character class, starred or not)    *)
(* with optional ^ and $ anchors.                                          *)
Lit(s) == [k \in 1..Len(s) |-> [class |-> {s[k]}, star |-> FALSE]]
Star(cls) == <<[class |-> cls, star |-> TRUE]>>
Pattern(bol, items, eol) == [bol |-> bol, items |-> items, eol |-> eol]

RECURSIVE Ends(_, _, _, _)
Ends(items, k, s, p) ==
    IF k > Len(items) THEN {p}
    ELSE LET it == items[k]
             ok == p <= Len(s) /\ s[p] \in it.class
         IN  IF it.star
             THEN Ends(items, k + 1, s, p)
                  \cup (IF ok THEN Ends(items, k, s, p + 1) ELSE {})
             ELSE IF ok THEN Ends(items, k + 1, s, p + 1) ELSE {}

MatchStringWhole(re, s) ==
    (Len(s) + 1) \in Ends(re.items, 1, s, 1)

MatchString(re, s) ==
    \E st \in 1..(Len(s) + 1) :
        /\ re.bol => st = 1
        /\ \E e \in Ends(re.items, 1, s, st) : re.eol => e = Len(s) + 1

(* ------------------------------ filters -------------------------------- *)
Bool(b) == IF b THEN "true" ELSE "false"

SetFilterFirstOnly(f, node) ==
    LET g == GetName(node)
    IN  IF g.panic THEN "panic"
        ELSE IF ~g.exists THEN "false"
        ELSE Bool(TypeOf(node) = f.Type
                  /\ Len(f.Names) > 0 /\ f.Names[1] = g.name)

SetFilter(f, node) ==
    LET g == GetName(node)
    IN  IF g.panic THEN "panic"
        ELSE IF ~g.exists THEN "false"
        ELSE LET matched == \E k \in 1..Len(f.Names) : f.Names[k] = g.name
             IN  Bool(TypeOf(node) = f.Type /\ matched)

RegexpFilterWhole(f, node) ==
    LET g == GetName(node)
    IN  IF g.panic THEN "panic"
        ELSE IF ~g.exists THEN "false"
        ELSE Bool(TypeOf(node) = f.Type /\ MatchStringWhole(f.Pattern, g.name))

RegexpFilter(f, node) ==
    LET g == GetName(node)
    IN  IF g.panic THEN "panic"
        ELSE IF ~g.exists THEN "false"
        ELSE Bool(TypeOf(node) = f.Type /\ MatchString(f.Pattern, g.name))

MethodFilter(f, node) ==
    IF TypeOf(node) # "FuncDecl" THEN "false"
    ELSE LET recv == node.Recv
         IN  IF recv.isNil \/ Len(recv.List) # 1 THEN "false"
             ELSE LET recvType == typeName(recv.List[1].Type).name
                  IN  IF recvType # f.ReceiverType THEN "false"
                      ELSE IF f.ExportedOnly /\ node.Name.isNil THEN "panic"
                      ELSE IF f.ExportedOnly /\ ~IsExported(node.Name.Name)
                           THEN "false"
                           ELSE "true"

FilterFunc(f, n) == Bool(f.fn[n])

(* ------------------------------ the trees ------------------------------ *)
(* Node handles are 1..MaxNodes; 0 is the nil ast.Node.  parent[n] = 0     *)
(* for a node without parent; children are ordered by handle.              *)
Nodes == 1..MaxNodes
Nil == 0

Parents == {p \in [Nodes -> 0..(MaxNodes - 1)] : \A n \in Nodes : p[n] < n}

RECURSIVE SortedSeq(_)
SortedSeq(S) ==
    IF S = {} THEN <<>>
    ELSE LET m == CHOOSE x \in S : \A y \in S : x <= y
         IN  <<m>> \o SortedSeq(S \ {m})

Children(n) == SortedSeq({c \in Nodes : parent[c] = n})

RECURSIVE Subtree(_)
Subtree(n) == {n} \cup UNION {Subtree(c) : c \in {d \in Nodes : parent[d] = n}}

ProperAncestor(a, m) == m \in Subtree(a) /\ m # a

NodeVal(n) == IF n = Nil THEN NilNode ELSE shape[n]

Range(s) == {s[k] : k \in 1..Len(s)}

(* filter.Filter(node): dispatch on the dynamic type of the filter *)
Filter(f, n) ==
    CASE f.type = "SetFilter" -> SetFilter(f, NodeVal(n))
      [] f.type = "RegexpFilter" -> RegexpFilter(f, NodeVal(n))
      [] f.type = "MethodFilter" -> MethodFilter(f, NodeVal(n))
      [] f.type = "FilterFunc" -> FilterFunc(f, n)

(* ------------------------------ Find ----------------------------------- *)
(* the closure find hands to ast.Walk, with visitFunc.Visit around it:     *)
(* the new value of find's found and whether the walk descends             *)
findVisitNoPrune(f, n, loc) ==
    LET r == Filter(f, n)
    IN  IF r = "panic" THEN [found |-> loc, descend |-> FALSE, panic |-> TRUE]
        ELSE IF r = "true"
             THEN [found |-> Append(loc, n), descend |-> TRUE, panic |-> FALSE]
             ELSE [found |-> loc, descend |-> TRUE, panic |-> FALSE]

findVisit(f, n, loc) ==
    LET r == Filter(f, n)
    IN  IF r = "panic" THEN [found |-> loc, descend |-> FALSE, panic |-> TRUE]
        ELSE IF r = "true"
             THEN [found |-> Append(loc, n), descend |-> FALSE, panic |-> FALSE]
             ELSE [found |-> loc, descend |-> TRUE, panic |-> FALSE]

FindAppendShared(acc, loc) == acc \o acc \o loc

FindAppend(acc, loc) == acc \o loc

WalkFrame(n) == [t |-> "walk", n |-> n]
EndFrame(n) == [t |-> "end", n |-> n]
ChildFrames(n) == [k \in 1..Len(Children(n)) |-> WalkFrame(Children(n)[k])]

(* Find's loop takes the next root and calls find, which calls ast.Walk *)
FindLoop ==
    /\ pc = "loop"
    /\ i <= Len(roots)
    /\ stack' = <<WalkFrame(roots[i])>>
    /\ local' = <<>>
    /\ pc' = "walk"
    /\ UNCHANGED <<parent, shape, roots, filter, i, found, calls>>
    /\ UNCHANGED pureVars

(* ast.Walk: v.Visit(node); descend into the children when it returns v *)
WalkVisit ==
    /\ pc = "walk"
    /\ stack # <<>>
    /\ Head(stack).t = "walk"
    /\ LET n == Head(stack).n
           v == findVisit(filter, n, local)
       IN  /\ calls' = Append(calls, [root |-> i, node |-> n])
           /\ IF v.panic
              THEN /\ pc' = "panic"
                   /\ stack' = <<>>
                   /\ local' = local
              ELSE /\ pc' = "walk"
                   /\ local' = v.found
                   /\ stack' = IF v.descend
                               THEN ChildFrames(n) \o <<EndFrame(n)>> \o Tail(stack)
                               ELSE Tail(stack)
    /\ UNCHANGED <<parent, shape, roots, filter, i, found>>
    /\ UNCHANGED pureVars

(* ast.Walk: v.Visit(nil) once the children of a node have been walked *)
WalkEnd ==
    /\ pc = "walk"
    /\ stack # <<>>
    /\ Head(stack).t = "end"
    /\ LET v == findVisit(filter, Nil, local)
       IN  /\ calls' = Append(calls, [root |-> i, node |-> Nil])
           /\ IF v.panic
              THEN /\ pc' = "panic"
                   /\ stack' = <<>>
                   /\ local' = local
              ELSE /\ pc' = "walk"
                   /\ local' = v.found
                   /\ stack' = Tail(stack)
    /\ UNCHANGED <<parent, shape, roots, filter, i, found>>
    /\ UNCHANGED pureVars

(* find returns its found, Find appends it *)
findReturn ==
    /\ pc = "walk"
    /\ stack = <<>>
    /\ found' = FindAppend(found, local)
    /\ local' = <<>>
    /\ i' = i + 1
    /\ pc' = "loop"
    /\ UNCHANGED <<parent, shape, roots, filter, stack, calls>>
    /\ UNCHANGED pureVars

FindReturn ==
    /\ pc = "loop"
    /\ i > Len(roots)
    /\ pc' = "done"
    /\ UNCHANGED <<parent, shape, roots, filter, i, stack, local, found, calls>>
    /\ UNCHANGED pureVars

(* inputs of Find *)
RootLists == UNION {[1..k -> Nodes] : k \in 0..MaxRoots}

PtrServiceOne == FieldList(<<Field(1, StarExpr(IdentExpr(ServiceOne)))>>)
WalkShapes == {TypeSpec(ServiceOne), FuncDecl(GetUpper, PtrServiceOne),
               ImportSpec(NilIdentPtr)}
DefaultShape == [n \in Nodes |-> BlockStmt]

AnyPattern == Pattern(FALSE, Star(AllChars), FALSE)
FilterFuncs == {[type |-> "FilterFunc", fn |-> g] : g \in [0..MaxNodes -> BOOLEAN]}
NamedFilters ==
    {[type |-> "SetFilter", Names |-> <<ServiceOne>>, Type |-> "TypeSpec"],
     [type |-> "RegexpFilter", Pattern |-> AnyPattern, Type |-> "FuncDecl"],
     [type |-> "MethodFilter", ReceiverType |-> ServiceOne, ExportedOnly |-> TRUE]}

NoFilter == [type |-> "none"]
NoResult == [tag |-> "none"]

PureIdle ==
    /\ op = "none"
    /\ arg = NilNode
    /\ flt = NoFilter
    /\ res = NoResult

Init ==
    /\ parent \in Parents
    /\ roots \in RootLists
    /\ filter \in FilterFuncs \cup NamedFilters
    /\ shape \in IF filter.type = "FilterFunc"
                 THEN {DefaultShape} ELSE [Nodes -> WalkShapes]
    /\ pc = "loop"
    /\ i = 1
    /\ stack = <<>>
    /\ local = <<>>
    /\ found = <<>>
    /\ calls = <<>>
    /\ PureIdle

Next == FindLoop \/ WalkVisit \/ WalkEnd \/ findReturn \/ FindReturn

Spec == Init /\ [][Next]_vars

(* ------------------- the pure functions on their inputs ---------------- *)
NodeNames == {ServiceOne, ServiceFoo, Service1, MyServiceImpl, Other,
              GetUpper, getLower, Check}
TypeNames == {ServiceOne, Other}

RECURSIVE WrapStars(_, _)
WrapStars(d, x) == IF d = 0 THEN x ELSE StarExpr(WrapStars(d - 1, x))

BaseTypeExprs == {IdentExpr(n) : n \in TypeNames} \cup {QualifiedExpr, ArrayType}
TypeExprsUpTo(m) == {WrapStars(d, x) : d \in 0..m, x \in BaseTypeExprs}
TypeExprs == TypeExprsUpTo(MaxStars)

Recvs ==
    {NoRecv, FieldList(<<>>)}
    \cup {FieldList(<<Field(k, t)>>) : k \in 0..2, t \in TypeExprs}
    \cup {FieldList(<<Field(1, t), Field(1, u)>>) : t, u \in TypeExprsUpTo(1)}

NameShapes ==
    {NilNode, BlockStmt, ImportSpec(NilIdentPtr)}
    \cup {TypeSpec(n) : n \in NodeNames}
    \cup {SelectorExpr(n) : n \in NodeNames}
    \cup {ImportSpec(IdentPtr(n)) : n \in NodeNames}
    \cup {Ident(n) : n \in NodeNames}
    \cup {FuncDecl(n, NoRecv) : n \in NodeNames}
MethodShapes ==
    {NilNode, BlockStmt, TypeSpec(ServiceOne), SelectorExpr(Check)}
    \cup {FuncDecl(n, r) : n \in {GetUpper, getLower}, r \in Recvs}

Kinds == {"TypeSpec", "FuncDecl", "SelectorExpr", "ImportSpec", "Ident"}
FilterNames == {ServiceOne, ServiceFoo, Check}
NameLists ==
    UNION {[1..k -> FilterNames] : k \in 0..2}
    \cup {<<ServiceFoo, ServiceFoo, ServiceOne>>}
SetFilters ==
    {[type |-> "SetFilter", Names |-> l, Type |-> t] : l \in NameLists, t \in Kinds}

ServiceAnchored == Pattern(TRUE, Lit(Service) \o Star(Letters), TRUE)
ServiceUnanchored == Pattern(FALSE, Lit(Service), FALSE)
RegexpFilters ==
    {[type |-> "RegexpFilter", Pattern |-> re, Type |-> t] :
        re \in {ServiceAnchored, ServiceUnanchored, AnyPattern}, t \in Kinds}

MethodFilters ==
    {[type |-> "MethodFilter", ReceiverType |-> r, ExportedOnly |-> e] :
        r \in TypeNames \cup {EmptyString}, e \in BOOLEAN}

WalkIdle ==
    /\ parent = [n \in Nodes |-> 0]
    /\ shape = DefaultShape
    /\ roots = <<>>
    /\ filter = NoFilter
    /\ pc = "idle"
    /\ i = 1
    /\ stack = <<>>
    /\ local = <<>>
    /\ found = <<>>
    /\ calls = <<>>

CallGetName ==
    /\ op = "none"
    /\ \E n \in NameShapes :
        /\ op' = "GetName"
        /\ arg' = n
        /\ flt' = NoFilter
        /\ res' = GetName(n)
    /\ UNCHANGED walkVars

CalltypeName ==
    /\ op = "none"
    /\ \E e \in TypeExprs :
        /\ op' = "typeName"
        /\ arg' = e
        /\ flt' = NoFilter
        /\ res' = typeName(e)
    /\ UNCHANGED walkVars

CallSetFilter ==
    /\ op = "none"
    /\ \E f \in SetFilters, n \in NameShapes :
        /\ op' = "SetFilter"
        /\ arg' = n
        /\ flt' = f
        /\ res' = SetFilter(f, n)
    /\ UNCHANGED walkVars

CallRegexpFilter ==
    /\ op = "none"
    /\ \E f \in RegexpFilters, n \in NameShapes :
        /\ op' = "RegexpFilter"
        /\ arg' = n
        /\ flt' = f
        /\ res' = RegexpFilter(f, n)
    /\ UNCHANGED walkVars

CallMethodFilter ==
    /\ op = "none"
    /\ \E f \in MethodFilters, n \in MethodShapes :
        /\ op' = "MethodFilter"
        /\ arg' = n
        /\ flt' = f
        /\ res' = MethodFilter(f, n)
    /\ UNCHANGED walkVars

FilterInit == WalkIdle /\ PureIdle

FilterNext ==
    CallGetName \/ CalltypeName \/ CallSetFilter \/ CallRegexpFilter
    \/ CallMethodFilter

FilterSpec == FilterInit /\ [][FilterNext]_vars

(* ============================ properties =============================== *)
Matches(n) == Filter(filter, n) = "true"
InputNodes == UNION {Subtree(roots[k]) : k \in 1..Len(roots)}
NoNestedRoots ==
    \A a, b \in 1..Len(roots) : ~ProperAncestor(roots[a], roots[b])
RootsDisjoint ==
    \A a, b \in 1..Len(roots) : a # b => roots[b] \notin Subtree(roots[a])
Pruned ==
    \A N, M \in InputNodes :
        (Matches(N) /\ ProperAncestor(N, M)) => M \notin Range(found)

(* the reference result of C2: per root, in pre-order, the matching nodes  *)
(* that have no matching proper ancestor under that root                   *)
RECURSIVE RefConcat(_)
RECURSIVE RefWalk(_)
RefConcat(cs) ==
    IF cs = <<>> THEN <<>> ELSE RefWalk(Head(cs)) \o RefConcat(Tail(cs))
RefWalk(n) == IF Matches(n) THEN <<n>> ELSE RefConcat(Children(n))
RECURSIVE RefFind(_)
RefFind(k) == IF k > Len(roots) THEN <<>> ELSE RefWalk(roots[k]) \o RefFind(k + 1)

(* C1 as stated: whatever the root list, a node with a matching proper     *)
(* ancestor in the input trees is not in the result of Find.               *)
C1_PruningAnyRoots == pc = "done" => Pruned

(* C1 amended: when no root lies strictly inside another root's subtree,   *)
(* a node with a matching proper ancestor in the input trees is not in     *)
(* the result of Find, even when it satisfies the filter itself.           *)
C1_PruningNoNestedRoots == (pc = "done" /\ NoNestedRoots) => Pruned

C1_Witness ==
    /\ pc = "done"
    /\ NoNestedRoots
    /\ Len(roots) = 2
    /\ \E N, M \in InputNodes :
        /\ Matches(N) /\ Matches(M) /\ ProperAncestor(N, M)
        /\ N \in Range(found) /\ M \notin Range(found)

(* C2: the result of Find is the reference result, for every filter.       *)
C2_FindEqualsReference == pc = "done" => found = RefFind(1)

(* C3 as stated: whatever the root list, no node is in the result of Find  *)
(* more than once.                                                         *)
C3_NoDuplicates ==
    pc = "done" =>
        \A a, b \in 1..Len(found) :
            (a # b /\ found[a] \in Nodes) => found[a] # found[b]

(* C3 amended: when no root is repeated or lies inside another root's      *)
(* subtree, no node of the trees is in the result of Find more than once.  *)
C3_NoDuplicateNodesDisjointRoots ==
    (pc = "done" /\ RootsDisjoint) =>
        \A a, b \in 1..Len(found) :
            (a # b /\ found[a] \in Nodes) => found[a] # found[b]

C3_Witness ==
    /\ pc = "done"
    /\ RootsDisjoint
    /\ Len(roots) = 2
    /\ \E a, b \in 1..Len(found) :
        /\ a # b
        /\ found[a] \in Subtree(roots[1])
        /\ found[b] \in Subtree(roots[2])

(* the identifier of a node as the kinds define it: the name of a type or  *)
(* function declaration or of a named import, the selected member of a     *)
(* selector expression, none otherwise                                     *)
RefIdentifier(node) ==
    IF node.kind \in {"TypeSpec", "FuncDecl"} THEN {node.Name.Name}
    ELSE IF node.kind = "SelectorExpr" THEN {node.Sel.Name}
    ELSE IF node.kind = "ImportSpec" /\ ~node.Name.isNil THEN {node.Name.Name}
    ELSE {}

(* C4: SetFilter.Filter returns true exactly when the node's kind is the   *)
(* filter's Type and its identifier is one of Names, whatever the order    *)
(* and the repetitions of Names.                                           *)
C4_SetFilterIff ==
    op = "SetFilter" =>
        (res = "true" <=>
            (TypeOf(arg) = flt.Type
             /\ RefIdentifier(arg) \cap Range(flt.Names) # {}))

C4_Witness ==
    /\ op = "SetFilter"
    /\ res = "true"
    /\ Len(flt.Names) = 3
    /\ flt.Names[1] \notin RefIdentifier(arg)

HasPrefix(s, pre) == Len(s) >= Len(pre) /\ SubSeq(s, 1, Len(pre)) = pre
Contains(s, sub) ==
    \E st \in 1..(Len(s) + 1) :
        st + Len(sub) - 1 <= Len(s) /\ SubSeq(s, st, st + Len(sub) - 1) = sub
RefOccurs(re, nm) ==
    IF re = ServiceAnchored
    THEN HasPrefix(nm, Service)
         /\ \A k \in (Len(Service) + 1)..Len(nm) : nm[k] \in Letters
    ELSE IF re = ServiceUnanchored THEN Contains(nm, Service)
    ELSE TRUE

(* C5: RegexpFilter.Filter returns true exactly when the node's kind is    *)
(* the filter's Type and the pattern occurs somewhere in its identifier:   *)
(* ^Service[A-Za-z]*$ takes whole names of that form, Service takes every  *)
(* name that contains it.                                                  *)
C5_RegexpFilterIff ==
    op = "RegexpFilter" =>
        (res = "true" <=>
            (TypeOf(arg) = flt.Type
             /\ \E nm \in RefIdentifier(arg) : RefOccurs(flt.Pattern, nm)))

C5_Witness ==
    /\ op = "RegexpFilter"
    /\ res = "true"
    /\ flt.Pattern = ServiceUnanchored
    /\ RefIdentifier(arg) = {MyServiceImpl}

NumFields(recv) ==
    IF recv.isNil THEN 0
    ELSE IF Len(recv.List) = 0 THEN 0
    ELSE IF Len(recv.List) = 1
         THEN (IF recv.List[1].Names = 0 THEN 1 ELSE recv.List[1].Names)
         ELSE 2
IsNamed(e) == e.tag = "Ident"
IsPointerToNamed(e) == e.tag = "StarExpr" /\ e.X.tag = "Ident"
OneLevelBase(e) ==
    IF IsNamed(e) THEN {e.Name}
    ELSE IF IsPointerToNamed(e) THEN {e.X.Name} ELSE {}
SingleReceiver(node) ==
    /\ node.kind = "FuncDecl"
    /\ ~node.Recv.isNil
    /\ Len(node.Recv.List) = 1

(* C6: MethodFilter.Filter returns true exactly for a function declaration *)
(* with exactly one receiver parameter whose type, with or without one     *)
(* level of indirection, has the base name ReceiverType, and whose name    *)
(* is exported when ExportedOnly is set.                                   *)
C6_MethodFilterIff ==
    op = "MethodFilter" =>
        (res = "true" <=>
            (/\ arg.kind = "FuncDecl"
             /\ NumFields(arg.Recv) = 1
             /\ flt.ReceiverType \in OneLevelBase(arg.Recv.List[1].Type)
             /\ flt.ExportedOnly => arg.Name.Name[1] \in Upper))

(* C7: for every ReceiverType and ExportedOnly, a function declaration     *)
(* whose single receiver has a type that typeName cannot resolve does not  *)
(* match.                                                                  *)
C7_UnresolvedReceiverNeverMatches ==
    (/\ op = "MethodFilter"
     /\ SingleReceiver(arg)
     /\ ~IsNamed(arg.Recv.List[1].Type)
     /\ \A d \in 1..MaxStars, n \in TypeNames :
            arg.Recv.List[1].Type # WrapStars(d, IdentExpr(n)))
        => res = "false"

(* C8: nothing met during the traversal is fatal to Find: GetName never    *)
(* crashes on a node the walk reaches and Find completes.                  *)
C8_FindNeverCrashes == pc # "panic"

(* C9 as stated: typeName resolves a named type and a pointer to a named   *)
(* type and nothing else, and MethodFilter does not match a receiver with  *)
(* two or more levels of indirection.                                      *)
C9_typeNameOneLevelOnly ==
    /\ op = "typeName" =>
           (res.err = FALSE <=> (IsNamed(arg) \/ IsPointerToNamed(arg)))
    /\ (/\ op = "MethodFilter"
        /\ SingleReceiver(arg)
        /\ \E d \in 2..MaxStars :
               arg.Recv.List[1].Type = WrapStars(d, IdentExpr(flt.ReceiverType)))
           => res = "false"

(* C9 amended: typeName resolves a named type wrapped in any number of     *)
(* levels of indirection to its name and fails on every other shape, so    *)
(* MethodFilter matches a receiver of type T behind any number of          *)
(* pointers (its name being exported when ExportedOnly is set).            *)
C9_typeNameUnwrapsEveryLevel ==
    /\ op = "typeName" =>
           \/ \E d \in 0..MaxStars, n \in TypeNames :
                  /\ arg = WrapStars(d, IdentExpr(n))
                  /\ res = [name |-> n, err |-> FALSE]
           \/ /\ \A d \in 0..MaxStars, n \in TypeNames :
                     arg # WrapStars(d, IdentExpr(n))
              /\ res = [name |-> EmptyString, err |-> TRUE]
    /\ (/\ op = "MethodFilter"
        /\ SingleReceiver(arg)
        /\ \E d \in 0..MaxStars :
               arg.Recv.List[1].Type = WrapStars(d, IdentExpr(flt.ReceiverType))
        /\ flt.ExportedOnly => arg.Name.Name[1] \in Upper)
           => res = "true"

C9_Witness ==
    /\ op = "MethodFilter"
    /\ SingleReceiver(arg)
    /\ arg.Recv.List[1].Type = WrapStars(2, IdentExpr(ServiceOne))
    /\ flt.ReceiverType = ServiceOne
    /\ res = "true"

(* C10: the filter is called on nodes of the trees only, at most once per  *)
(* node and root, and the result of Find holds nodes only.                 *)
C10_FilterSeesOnlyNodes ==
    /\ \A k \in 1..Len(calls) : calls[k].node # Nil
    /\ \A k, m \in 1..Len(calls) : k # m => calls[k] # calls[m]
    /\ \A k \in 1..Len(found) : found[k] # Nil
    /\ \A k \in 1..Len(local) : local[k] # Nil

====
